---- MODULE Spec2Model ----
(***************************************************************************)
(* A model of rohanchauhan02/common:                                       *)
(*   logs/logs.go            the process-wide CommonLogger, its level      *)
(*                           mapping, its log methods, the request-id      *)
(*                           middleware;                                   *)
(*   database/redis/redis.go the redis client wrapper.                     *)
(* Goroutines are the processes Procs; every shared field is a variable    *)
(* and every unguarded read or write of one is a step of its own.          *)
(***************************************************************************)
EXTENDS Integers, Sequences, FiniteSets, TLC

(* ----------------------------- bounds ---------------------------------- *)
\* goroutines
NProcs == 2
\* log calls recorded in one run
MaxLog == 2
\* NewCommonLog calls started in one run
MaxNew == 3
\* requests passed through the middleware in one run
MaxReq == 2
\* log calls the handlers make in one run
MaxHandlerLog == 1
\* redis operations in one run
MaxOps == 3

Procs == 1..NProcs

(* Go's nil pointer / a call that passed no argument / a value not there *)
NIL == 0
None == "<none>"

(* ----------------------------- strings --------------------------------- *)
\* strings are sequences of characters; the prefixes given to NewCommonLog
\* and SetPrefix
Prefixes == {<<>>, <<"a">>, <<"A">>, <<"b">>}

\* the variadic `prefix ...string`: no argument, or one
PrefixArgs == {<<>>} \cup {<<s>> : s \in Prefixes}

\* unicode simple case folding, on the alphabet
FoldChar(c) == CASE c = "A" -> "a" [] c = "B" -> "b" [] OTHER -> c

\* strings.EqualFold(s, t)
EqualFold(s, t) ==
    /\ Len(s) = Len(t)
    /\ \A i \in 1..Len(s) : FoldChar(s[i]) = FoldChar(t[i])

(* ----------------------------- state ----------------------------------- *)
VARIABLES
    once,         \* sync.Once: "new", "running" (f executing), "done"
    loggerNews,   \* number of logrus.New() calls made
    instanceNews, \* number of CommonLogger values constructed
    logger,       \* package var logger: NIL or the id of a logrus.Logger
    instance,     \* package var instance: NIL or the id of a CommonLogger
    prefix,       \* instance.prefix
    requestID,    \* instance.requestID
    level,        \* logger.Level
    exited,       \* the process has terminated (os.Exit or a panic nobody recovered)
    pc,           \* where each goroutine is
    arg,          \* NewCommonLog's prefix argument, per goroutine
    seen,         \* instance.prefix as read by the comparison of line 47
    wrote,        \* whether this call executed line 48
    solo,         \* no other NewCommonLog call overlapped this one
    ret,          \* <<the handle the goroutine's last NewCommonLog returned>>
    newCalls,     \* NewCommonLog calls started
    out,          \* the entries the logrus logger has emitted
    sink,         \* the messages sentry.CaptureMessage has received
    calls,        \* the log calls made, each with what it logged and forwarded,
                  \* q.requestID at the time, and the request it was made in
    lastSet,      \* the argument of the latest SetLevel
    levelRet,     \* what Level() returned since the latest SetLevel
    hdr,          \* the X-Request-Id header of the request a goroutine serves
    requestId,    \* the middleware's local requestId
    scopeTag,     \* the tag x-request-id of the sentry scope
    invoked,      \* times next(c) was called for the current request
    served,       \* the latest request served: its header, the calls of next(c),
                  \* what next(c) returned and what the middleware returned
    mwWroteID,    \* what the current request's middleware stored in q.requestID
    mwWroteTag,   \* what the current request's middleware set the tag to
    mwPrevID,     \* q.requestID just before that store
    mwPrevTag,    \* the tag just before it was set
    reqs,         \* requests started
    cfg,          \* the redis struct NewRedis built <<[db, poolSize, readTimeout]>>, if any
    client,       \* redis.client: <<>> for nil, or <<the client InitClient stored>>
    clientNews,   \* clients created by redisTraceLib.NewClient
    store,        \* the backend: per key <<>>, or <<value, whether it expires>>
    redisRet,     \* the latest redis operation and what it returned
    ops           \* redis operations made

loggerVars == <<once, loggerNews, instanceNews, logger, instance>>
newVars == <<arg, seen, wrote, solo, ret, newCalls>>
logVars == <<out, sink, calls>>
lvlVars == <<lastSet, levelRet>>
mwLocals == <<hdr, requestId, invoked, served, mwWroteID, mwWroteTag,
              mwPrevID, mwPrevTag, reqs>>
redisVars == <<cfg, client, clientNews, store, redisRet, ops>>
vars == <<loggerVars, prefix, requestID, level, exited, pc, newVars, logVars,
          lvlVars, mwLocals, scopeTag, redisVars>>

\* logrus.New() sets Level: InfoLevel
LogrusDefaultLevel == "info"

\* RedisConfig values NewRedis is given
Configs == [db : {0, 1}, poolSize : {0, 8}, readTimeout : {0, 5}]

Keys == {"k1", "k2"}
Values == {"", "v"}
\* time.Duration values given as ttl, in seconds: 0 is no expiry
TTLs == {0, 5}

\* no request served yet
NoRequest == [hdr |-> None, invoked |-> 0, handlerErr |-> None, mwRet |-> None]

\* no redis operation made yet
NoOp == [op |-> "none", key |-> "", reply |-> "", val |-> "", n |-> 0,
         err |-> "", panicked |-> FALSE, before |-> <<>>, stored |-> <<>>]

\* everything but the package variables of logs and the redis handle
InitRest ==
    /\ exited = FALSE
    /\ pc = [p \in Procs |-> "idle"]
    /\ arg = [p \in Procs |-> <<>>]
    /\ seen = [p \in Procs |-> <<>>]
    /\ wrote = [p \in Procs |-> FALSE]
    /\ solo = [p \in Procs |-> TRUE]
    /\ out = <<>>
    /\ sink = <<>>
    /\ calls = <<>>
    /\ lastSet = None
    /\ levelRet = None
    /\ hdr = [p \in Procs |-> None]
    /\ requestId = [p \in Procs |-> ""]
    /\ scopeTag = None
    /\ invoked = [p \in Procs |-> 0]
    /\ served = NoRequest
    /\ mwWroteID = [p \in Procs |-> None]
    /\ mwWroteTag = [p \in Procs |-> None]
    /\ mwPrevID = [p \in Procs |-> None]
    /\ mwPrevTag = [p \in Procs |-> None]
    /\ reqs = 0
    /\ cfg = <<>>
    /\ client = <<>>
    /\ clientNews = 0
    /\ store = [k \in Keys |-> <<>>]
    /\ redisRet = NoOp
    /\ ops = 0

\* the process starts: the package variables hold their zero values
Init ==
    /\ once = "new"
    /\ loggerNews = 0
    /\ instanceNews = 0
    /\ logger = NIL
    /\ instance = NIL
    /\ prefix = <<>>
    /\ requestID = ""
    /\ level = LogrusDefaultLevel
    /\ ret = [p \in Procs |-> <<>>]
    /\ newCalls = 0
    /\ InitRest

\* the state once package redis is initialised: its `logger = logs.NewCommonLog()`
\* has run on the main goroutine
InitBuilt ==
    /\ once = "done"
    /\ loggerNews = 1
    /\ instanceNews = 1
    /\ logger = 1
    /\ instance = 1
    /\ prefix = <<>>
    /\ requestID = ""
    /\ level = LogrusDefaultLevel
    /\ ret = [p \in Procs |-> IF p = 1 THEN <<1>> ELSE <<>>]
    /\ newCalls = 1
    /\ InitRest

InNew(p) == pc[p] \in {"once", "body", "check", "write", "return"}

(* ----------------------------- NewCommonLog ---------------------------- *)
notNew == <<exited, logVars, lvlVars, mwLocals, scopeTag, redisVars>>

\* a goroutine calls NewCommonLog(a...)
NewCommonLog(p, a) ==
    /\ ~exited
    /\ pc[p] = "idle"
    /\ newCalls < MaxNew
    /\ newCalls' = newCalls + 1
    /\ pc' = [pc EXCEPT ![p] = "once"]
    /\ arg' = [arg EXCEPT ![p] = a]
    /\ wrote' = [wrote EXCEPT ![p] = FALSE]
    /\ solo' = [q \in Procs |->
                  IF q = p THEN \A r \in Procs \ {p} : ~InNew(r)
                  ELSE IF InNew(q) THEN FALSE ELSE solo[q]]
    /\ UNCHANGED <<loggerVars, prefix, requestID, level, seen, ret, notNew>>

\* sync.Once: a caller finds f already running, and runs it again
OnceMayRunUnlocked(o) == o # "done"

\* sync.Once: the caller that runs f is the one that finds f never started
OnceMayRun(o) == o = "new"

\* once.Do(f): the first caller runs f; a caller that finds f running waits
\* for it to return; a caller that finds f done goes on
OnceDo(p) ==
    /\ ~exited
    /\ pc[p] = "once"
    /\ \/ /\ OnceMayRun(once)
          /\ once' = "running"
          /\ pc' = [pc EXCEPT ![p] = "body"]
       \/ /\ once = "done"
          /\ UNCHANGED once
          /\ pc' = [pc EXCEPT ![p] = "check"]
    /\ UNCHANGED <<loggerNews, instanceNews, logger, instance, prefix,
                   requestID, level, newVars, notNew>>

\* the function passed to once.Do, lines 34-43
OnceBody(p) ==
    /\ ~exited
    /\ pc[p] = "body"
    /\ loggerNews' = loggerNews + 1
    /\ logger' = loggerNews + 1
    /\ level' = LogrusDefaultLevel
    /\ instanceNews' = instanceNews + 1
    /\ instance' = instanceNews + 1
    /\ requestID' = ""
    /\ prefix' = IF Len(arg[p]) > 0 THEN arg[p][1] ELSE <<>>
    /\ once' = "done"
    /\ pc' = [pc EXCEPT ![p] = "check"]
    /\ UNCHANGED <<newVars, notNew>>

\* line 47 with == in place of strings.EqualFold
PrefixChangedExact(a, stored) == Len(a) > 0 /\ stored # a[1]

\* the condition of line 47
PrefixChanged(a, stored) == Len(a) > 0 /\ ~EqualFold(stored, a[1])

\* line 47: reads instance.prefix and compares
CheckPrefix(p) ==
    /\ ~exited
    /\ pc[p] = "check"
    /\ seen' = [seen EXCEPT ![p] = prefix]
    /\ pc' = [pc EXCEPT ![p] = IF PrefixChanged(arg[p], prefix)
                                THEN "write" ELSE "return"]
    /\ UNCHANGED <<loggerVars, prefix, requestID, level, arg, wrote, solo,
                   ret, newCalls, notNew>>

\* line 48: instance.prefix = prefix[0]
WritePrefix(p) ==
    /\ ~exited
    /\ pc[p] = "write"
    /\ prefix' = arg[p][1]
    /\ wrote' = [wrote EXCEPT ![p] = TRUE]
    /\ pc' = [pc EXCEPT ![p] = "return"]
    /\ UNCHANGED <<loggerVars, requestID, level, arg, seen, solo, ret,
                   newCalls, notNew>>

\* line 51: return instance
ReturnInstance(p) ==
    /\ ~exited
    /\ pc[p] = "return"
    /\ ret' = [ret EXCEPT ![p] = <<instance>>]
    /\ pc' = [pc EXCEPT ![p] = "idle"]
    /\ UNCHANGED <<loggerVars, prefix, requestID, level, arg, seen, wrote,
                   solo, newCalls, notNew>>

\* Prefix(): return q.prefix
Prefix == prefix

NextNew ==
    \E p \in Procs :
        \/ \E a \in PrefixArgs : NewCommonLog(p, a)
        \/ OnceDo(p)
        \/ OnceBody(p)
        \/ CheckPrefix(p)
        \/ WritePrefix(p)
        \/ ReturnInstance(p)

\* the construction of the logger, by any number of goroutines
SpecNew == Init /\ [][NextNew]_vars

(* C1: however many NewCommonLog calls are made, one after another or at   *)
(* the same time, with whatever prefix arguments, logrus.New() and the     *)
(* CommonLogger construction run at most once, exactly once as soon as any *)
(* call is past once.Do, and every call returns the one non-nil handle.    *)
C1_ConstructedOnce ==
    /\ loggerNews <= 1
    /\ instanceNews <= 1
    /\ \A p \in Procs :
         /\ pc[p] \in {"check", "write", "return"} =>
               /\ loggerNews = 1
               /\ instanceNews = 1
               /\ instance # NIL
         /\ ret[p] # <<>> => ret[p][1] # NIL /\ ret[p][1] = instance
         /\ \A q \in Procs : ret[p] # <<>> /\ ret[q] # <<>> => ret[p] = ret[q]

\* two goroutines have called NewCommonLog at the same time with different
\* prefixes, and both calls have returned
C1_Witness ==
    /\ \A p \in Procs : ret[p] # <<>> /\ pc[p] = "idle"
    /\ \E p, q \in Procs :
         /\ p # q
         /\ ~solo[p]
         /\ Len(arg[p]) > 0 /\ Len(arg[q]) > 0
         /\ ~EqualFold(arg[p][1], arg[q][1])

\* strings.ToLower, on the alphabet
Lower(s) == [i \in 1..Len(s) |-> FoldChar(s[i])]

(* C2 as claimed: a NewCommonLog call overwrites the stored prefix exactly *)
(* when it is given a non-empty prefix that differs, ignoring case, from   *)
(* the stored one it read; a call given no prefix, an empty prefix or an   *)
(* equal one leaves it unchanged.                                          *)
C2_OverwriteOnlyNonEmpty ==
    \A p \in Procs :
        pc[p] = "return" =>
            (wrote[p] <=> /\ Len(arg[p]) > 0
                          /\ arg[p][1] # <<>>
                          /\ Lower(arg[p][1]) # Lower(seen[p]))

(* C2 amended: a NewCommonLog call overwrites the stored prefix exactly    *)
(* when it is given a prefix, empty or not, that differs, ignoring case,   *)
(* from the stored one it read; a call given no prefix or an equal one     *)
(* leaves it unchanged.  So after a call that no other call overlaps,      *)
(* Prefix() reports the given prefix when that differs from the one stored *)
(* before, and the one stored before otherwise.                            *)
C2_OverwriteWhenDiffers ==
    \A p \in Procs :
        pc[p] = "return" =>
            /\ wrote[p] <=> /\ Len(arg[p]) > 0
                            /\ Lower(arg[p][1]) # Lower(seen[p])
            /\ solo[p] => Prefix = IF wrote[p] THEN arg[p][1] ELSE seen[p]

\* a second call, overlapping no other, was given a prefix different from
\* the stored one and has overwritten it
C2_Witness ==
    \E p \in Procs :
        /\ pc[p] = "return"
        /\ solo[p]
        /\ newCalls >= 2
        /\ wrote[p]
        /\ seen[p] # <<>>
        /\ arg[p][1] # <<>>
        /\ Prefix = arg[p][1]

(* ----------------------------- levels ---------------------------------- *)
\* gommon/log's Lvl: the constants of the package and one value it does not name
EchoLevels == {"DEBUG", "INFO", "WARN", "ERROR", "OFF", "panicLevel",
               "fatalLevel", "Lvl(0)"}

\* logrus.Level, as its numeric value: a level is enabled when the logger's
\* level is at least it
LogrusRank == [panic |-> 0, fatal |-> 1, error |-> 2, warn |-> 3, info |-> 4,
               debug |-> 5]

\* toLogrusLevel with a default that maps to no echo level
toLogrusLevelDefaultPanic(lv) ==
    CASE lv = "DEBUG" -> "debug"
      [] lv = "INFO"  -> "info"
      [] lv = "WARN"  -> "warn"
      [] lv = "ERROR" -> "error"
      [] OTHER        -> "panic"

toLogrusLevel(lv) ==
    CASE lv = "DEBUG" -> "debug"
      [] lv = "INFO"  -> "info"
      [] lv = "WARN"  -> "warn"
      [] lv = "ERROR" -> "error"
      [] OTHER        -> "info"

toEchoLevel(lv) ==
    CASE lv = "debug" -> "DEBUG"
      [] lv = "info"  -> "INFO"
      [] lv = "warn"  -> "WARN"
      [] lv = "error" -> "ERROR"
      [] OTHER        -> "OFF"

notLvl == <<loggerVars, prefix, requestID, exited, pc, newVars, logVars,
            mwLocals, scopeTag, redisVars>>

\* q.SetLevel(v)
SetLevel(p, v) ==
    /\ ~exited
    /\ pc[p] \in {"idle", "handler"}
    /\ instance # NIL
    /\ level' = toLogrusLevel(v)
    /\ lastSet' = v
    /\ levelRet' = None
    /\ UNCHANGED notLvl

\* q.Level()
Level(p) ==
    /\ ~exited
    /\ pc[p] \in {"idle", "handler"}
    /\ instance # NIL
    /\ levelRet' = toEchoLevel(level)
    /\ UNCHANGED <<level, lastSet, notLvl>>

\* q.SetPrefix(s)
SetPrefix(p, s) ==
    /\ ~exited
    /\ pc[p] \in {"idle", "handler"}
    /\ instance # NIL
    /\ prefix' = s
    /\ UNCHANGED <<loggerVars, requestID, level, exited, pc, newVars, logVars,
                   lvlVars, mwLocals, scopeTag, redisVars>>

(* C5 as claimed: Level() after SetLevel(v) returns v for DEBUG, INFO,     *)
(* WARN and ERROR, and OFF for every other v.                              *)
C5_UnknownReadsOff ==
    (lastSet # None /\ levelRet # None) =>
        levelRet = IF lastSet \in {"DEBUG", "INFO", "WARN", "ERROR"}
                   THEN lastSet ELSE "OFF"

(* C5 amended: Level() after SetLevel(v) returns v for DEBUG, INFO, WARN   *)
(* and ERROR, and INFO for every other v.                                  *)
C5_UnknownReadsInfo ==
    (lastSet # None /\ levelRet # None) =>
        levelRet = IF lastSet \in {"DEBUG", "INFO", "WARN", "ERROR"}
                   THEN lastSet ELSE "INFO"

\* SetLevel(OFF), then Level()
C5_Witness == lastSet = "OFF" /\ levelRet = "INFO"

(* ----------------------------- rendering ------------------------------- *)
\* fmt.Sprint of string operands: no space goes between two strings
RECURSIVE Sprint(_)
Sprint(a) == IF Len(a) = 0 THEN "" ELSE a[1] \o Sprint(Tail(a))

\* the operands a format did not consume: "string=x, string=y"
RECURSIVE ExtraList(_)
ExtraList(a) ==
    IF Len(a) = 0 THEN ""
    ELSE "string=" \o a[1] \o (IF Len(a) > 1 THEN ", " ELSE "") \o ExtraList(Tail(a))

\* the formats used: one verb, or plain text without a verb
Verbs(format) == IF format \in {"%+v", "%v"} THEN 1 ELSE 0

\* fmt.Sprintf(format, a...) for string operands
Sprintf(format, a) ==
    LET n == Verbs(format)
        body == IF n = 0 THEN format
                ELSE IF Len(a) = 0 THEN "%!v(MISSING)" ELSE a[1]
        rest == IF Len(a) > n THEN SubSeq(a, n + 1, Len(a)) ELSE <<>>
    IN  body \o (IF Len(rest) > 0 THEN "%!(EXTRA " \o ExtraList(rest) \o ")" ELSE "")

\* a gommonLog.JSON under %+v: map[k:v k:v], keys in order
RECURSIVE MapBody(_)
MapBody(j) ==
    IF Len(j) = 0 THEN ""
    ELSE j[1][1] \o ":" \o j[1][2] \o (IF Len(j) > 1 THEN " " ELSE "") \o MapBody(Tail(j))

MapString(j) == "map[" \o MapBody(j) \o "]"

(* ----------------------------- log methods ----------------------------- *)
Severities == {"Print", "Debug", "Info", "Warn", "Error", "Fatal", "Panic"}

PlainArgs == {<<"boom">>, <<"boom", "x">>}
JSONs == {<<<<"msg", "boom">>>>}

\* the calls: X(i...), Xf(format, args...), Xj(j)
PlainCalls == [sev : Severities, variant : {""}, format : {""}, args : PlainArgs, j : {<<>>}]
FormatCalls == [sev : Severities, variant : {"f"}, format : {"%v"}, args : {<<"boom">>}, j : {<<>>}]
JSONCalls == [sev : Severities, variant : {"j"}, format : {""}, args : {<<>>}, j : JSONs]
LogCalls == PlainCalls \cup FormatCalls \cup JSONCalls
BoomCalls == {c \in PlainCalls : c.args = <<"boom">>}

\* what runtime.Caller(2) and runtime.FuncForPC report
NoCaller == [ok |-> FALSE, file |-> <<>>, line |-> 0, fn |-> <<>>]
Caller == [ok |-> TRUE, file |-> <<"srv", "app.go">>, line |-> 10, fn |-> <<"main", "run">>]
Sites == {NoCaller, Caller}

\* path.Base of a path given as its elements
PathBase(elems) == IF Len(elems) = 0 THEN "." ELSE elems[Len(elems)]

\* lines 56-66
Source(site) ==
    IF ~site.ok THEN ""
    ELSE LET funcName == IF Len(site.fn) = 0 THEN <<>> ELSE <<site.fn[Len(site.fn)]>>
         IN  PathBase(site.file) \o ":" \o ToString(site.line) \o ":"
                 \o PathBase(funcName) \o "()"

\* decorateLog keeping the request id with the request: the field is the id
\* of the request the calling goroutine serves
decorateLogScoped(p, site) ==
    LET rid == IF pc[p] = "handler" THEN requestId[p] ELSE requestID
    IN  [source |-> Source(site)]
          @@ (IF prefix # <<>> THEN "prefix" :> prefix ELSE <<>>)
          @@ (IF rid # "" THEN "requestID" :> rid ELSE <<>>)

\* q.decorateLog(): the fields of the entry
decorateLog(p, site) ==
    [source |-> Source(site)]
      @@ (IF prefix # <<>> THEN "prefix" :> prefix ELSE <<>>)
      @@ (IF requestID # "" THEN "requestID" :> requestID ELSE <<>>)

\* the logrus method each method calls: Print is Info
LogrusLevelOf(sev) ==
    CASE sev = "Print" -> "info"
      [] sev = "Debug" -> "debug"
      [] sev = "Info"  -> "info"
      [] sev = "Warn"  -> "warn"
      [] sev = "Error" -> "error"
      [] sev = "Fatal" -> "fatal"
      [] sev = "Panic" -> "panic"

\* logrus' IsLevelEnabled
IsLevelEnabled(lv) == LogrusRank[level] >= LogrusRank[lv]

\* the message logrus renders for the entry
Logged(c) ==
    CASE c.variant = ""  -> Sprint(c.args)
      [] c.variant = "f" -> Sprintf(c.format, c.args)
      [] c.variant = "j" -> Sprintf("%+v", <<MapString(c.j)>>)

\* the argument of q.sentry in the method's second statement
Forwarded(c) ==
    CASE c.variant = ""  -> Sprintf("%+v", c.args)
      [] c.variant = "f" -> Sprintf(c.format, c.args)
      [] c.variant = "j" -> Sprintf("%+v", <<MapString(c.j)>>)

\* the methods whose body has a q.sentry statement
HasSentry(sev) == sev \in {"Error", "Fatal", "Panic"}

\* whether the logrus call returns: Fatal ends in logger.Exit(1), Panic in panic()
Returns(sev) == sev \notin {"Fatal", "Panic"}

notLog == <<loggerVars, prefix, requestID, level, newVars, lvlVars, scopeTag,
            redisVars>>

\* what a log method does to the logger's output and to sentry
Emit(p, c, site) ==
    LET fields == decorateLog(p, site)
        lv == LogrusLevelOf(c.sev)
        msg == Logged(c)
        emitted == IsLevelEnabled(lv)
        fwd == IF Returns(c.sev) /\ HasSentry(c.sev)
               THEN <<Forwarded(c)>> ELSE <<>>
    IN  /\ out' = IF emitted
                  THEN Append(out, [level |-> lv, msg |-> msg, fields |-> fields])
                  ELSE out
        /\ sink' = sink \o fwd
        /\ calls' = Append(calls,
               [sev |-> c.sev, variant |-> c.variant, logged |-> msg,
                emitted |-> emitted, fields |-> fields, sent |-> fwd,
                shared |-> requestID,
                inReq |-> IF pc[p] = "handler" THEN <<requestId[p]>> ELSE <<>>])

\* what a goroutine holds of a request is gone when the request is over
RequestOver(p) ==
    /\ hdr' = [hdr EXCEPT ![p] = None]
    /\ requestId' = [requestId EXCEPT ![p] = ""]
    /\ invoked' = [invoked EXCEPT ![p] = 0]
    /\ mwWroteID' = [mwWroteID EXCEPT ![p] = None]
    /\ mwWroteTag' = [mwWroteTag EXCEPT ![p] = None]
    /\ mwPrevID' = [mwPrevID EXCEPT ![p] = None]
    /\ mwPrevTag' = [mwPrevTag EXCEPT ![p] = None]

\* one log method call, from outside a request or from a handler.  A panic
\* is recovered where it is ("here"), above the middleware ("above": the
\* goroutine is done with the request), or by nobody ("crash").
Log(p, c, site, recovery) ==
    /\ ~exited
    /\ pc[p] \in {"idle", "handler"}
    /\ instance # NIL
    /\ Len(calls) < MaxLog
    /\ Emit(p, c, site)
    /\ exited' = (c.sev = "Fatal" \/ (c.sev = "Panic" /\ recovery = "crash"))
    /\ IF c.sev = "Panic" /\ recovery = "above"
       THEN /\ pc' = [pc EXCEPT ![p] = "idle"]
            /\ RequestOver(p)
            /\ UNCHANGED <<served, reqs>>
       ELSE UNCHANGED <<pc, mwLocals>>
    /\ UNCHANGED notLog

Recoveries == {"here", "above", "crash"}

NextLog ==
    \E p \in Procs :
        \/ \E c \in LogCalls, site \in Sites, r \in Recoveries : Log(p, c, site, r)
        \/ \E s \in Prefixes : SetPrefix(p, s)

\* log calls on the constructed logger
SpecLog == InitBuilt /\ [][NextLog]_vars

NextLevel ==
    \E p \in Procs :
        \/ \E v \in EchoLevels : SetLevel(p, v)
        \/ Level(p)
        \/ \E c \in BoomCalls, r \in Recoveries : Log(p, c, Caller, r)

\* the level of the constructed logger, and log calls under it
SpecLevel == InitBuilt /\ [][NextLevel]_vars

IsError(r) == r.sev = "Error"
NeverForwards(r) == r.sev \in {"Print", "Debug", "Info", "Warn"}

(* C3: every Error, Errorf or Errorj call makes exactly one capture-       *)
(* message call carrying the message the call rendered for its entry, and  *)
(* every Debug*, Info*, Warn* or Print* call makes none; the sink has as   *)
(* many messages as Error* calls were made.                                *)
C3_ErrorForwardsRendered ==
    /\ \A i \in 1..Len(calls) :
         /\ IsError(calls[i]) => calls[i].sent = <<calls[i].logged>>
         /\ NeverForwards(calls[i]) => calls[i].sent = <<>>
    /\ Len(sink) = Cardinality({i \in 1..Len(calls) : IsError(calls[i])})

(* C4: every Fatal*, Panic* call emits its entry and makes one capture-    *)
(* message call with the rendered message.                                 *)
C4_FatalPanicForwarded ==
    \A i \in 1..Len(calls) :
        calls[i].sev \in {"Fatal", "Panic"} =>
            /\ calls[i].emitted
            /\ Len(calls[i].sent) = 1

(* ----------------------------- middleware ------------------------------ *)
\* the inbound request's X-Request-Id: absent, or one value
Headers == {None, "r1", "r2"}
HandlerErrs == {"nil", "err"}

\* http.Header.Get: "" when the header is absent
HeaderGet(h) == IF h = None THEN "" ELSE h

notMw == <<loggerVars, prefix, level, exited, newVars, logVars, lvlVars, redisVars>>

\* a middleware that stores the id only when the header gave one
StoredIDIfPresent(p, id) == IF id # "" THEN id ELSE requestID

\* the right-hand side of line 217
StoredID(p, id) == id

\* a request with header h reaches the middleware; lines 216-217: the header
\* is read into the local requestId, which is stored in q.requestID
MwWrite(p, h) ==
    /\ ~exited
    /\ pc[p] = "idle"
    /\ instance # NIL
    /\ reqs < MaxReq
    /\ reqs' = reqs + 1
    /\ hdr' = [hdr EXCEPT ![p] = h]
    /\ requestId' = [requestId EXCEPT ![p] = HeaderGet(h)]
    /\ requestID' = StoredID(p, HeaderGet(h))
    /\ mwPrevID' = [mwPrevID EXCEPT ![p] = requestID]
    /\ mwWroteID' = [mwWroteID EXCEPT ![p] = StoredID(p, HeaderGet(h))]
    /\ pc' = [pc EXCEPT ![p] = "mw_tag"]
    /\ UNCHANGED <<invoked, served, mwWroteTag, mwPrevTag, scopeTag, notMw>>

\* lines 218-221: the scope of the one sentry hub gets the tag, and next(c)
\* is called
MwTagNext(p) ==
    /\ ~exited
    /\ pc[p] = "mw_tag"
    /\ scopeTag' = requestId[p]
    /\ mwPrevTag' = [mwPrevTag EXCEPT ![p] = scopeTag]
    /\ mwWroteTag' = [mwWroteTag EXCEPT ![p] = requestId[p]]
    /\ invoked' = [invoked EXCEPT ![p] = invoked[p] + 1]
    /\ pc' = [pc EXCEPT ![p] = "handler"]
    /\ UNCHANGED <<hdr, requestId, served, mwWroteID, mwPrevID, reqs,
                   requestID, notMw>>

\* a middleware that handles the handler's error itself and returns nil
MwResultNil(e) == "nil"

\* line 221: what the middleware returns, given what next(c) returned
MwResult(e) == e

\* line 221: next(c) returns e, and the middleware returns
MwReturn(p, e) ==
    /\ ~exited
    /\ pc[p] = "handler"
    /\ served' = [hdr |-> hdr[p], invoked |-> invoked[p], handlerErr |-> e,
                  mwRet |-> MwResult(e)]
    /\ RequestOver(p)
    /\ pc' = [pc EXCEPT ![p] = "idle"]
    /\ UNCHANGED <<reqs, requestID, scopeTag, notMw>>

\* the log calls the handlers of the model make
HandlerCalls == {c \in BoomCalls : c.sev \in {"Error", "Panic"}}

\* a log call from the handler of the request p serves
HandlerLog(p, c, recovery) ==
    /\ pc[p] = "handler"
    /\ Len(calls) < MaxHandlerLog
    /\ Log(p, c, Caller, recovery)

NextMw ==
    \E p \in Procs :
        \/ \E h \in Headers : MwWrite(p, h)
        \/ MwTagNext(p)
        \/ \E e \in HandlerErrs : MwReturn(p, e)
        \/ \E c \in HandlerCalls, r \in Recoveries : HandlerLog(p, c, r)

\* requests served at the same time through the middleware of the one logger
SpecMw == InitBuilt /\ [][NextMw]_vars

(* C6: for a request with X-Request-Id = v, q.requestID has been written   *)
(* with v and the scope tag set to v by the time the wrapped handler is    *)
(* invoked; the handler is invoked exactly once for every request, with or *)
(* without the header, and the middleware returns what it returned.        *)
C6_TaggedBeforeHandler ==
    /\ \A p \in Procs :
        /\ (pc[p] = "handler" /\ hdr[p] # None) =>
               mwWroteID[p] = hdr[p] /\ mwWroteTag[p] = hdr[p]
        /\ pc[p] = "mw_tag" => invoked[p] = 0
        /\ pc[p] = "handler" => invoked[p] = 1
    /\ served.mwRet # None =>
           served.invoked = 1 /\ served.mwRet = served.handlerErr

\* a request without the header is in its handler, and a request with the
\* header has been served, its handler returning an error
C6_Witness ==
    /\ served.hdr = "r1"
    /\ served.mwRet = "err"
    /\ \E p \in Procs :
          /\ pc[p] = "handler"
          /\ hdr[p] = None
          /\ mwWroteTag[p] = ""

(* C9: the requestID field of an entry is whatever the one shared field    *)
(* holds when the call is made (last write wins), whichever request the    *)
(* calling handler serves; so a handler's entry can carry the id of a      *)
(* request served at the same time.                                        *)
C9_LastWriteWins ==
    \A i \in 1..Len(calls) :
        IF calls[i].shared = "" THEN "requestID" \notin DOMAIN calls[i].fields
        ELSE /\ "requestID" \in DOMAIN calls[i].fields
             /\ calls[i].fields.requestID = calls[i].shared

\* the handler of request r1 has logged an entry that carries r2
C9_Witness ==
    \E i \in 1..Len(calls) :
        /\ calls[i].inReq = <<"r1">>
        /\ calls[i].shared = "r2"
        /\ "requestID" \in DOMAIN calls[i].fields
        /\ calls[i].fields.requestID = "r2"

(* C10 as claimed: a request without the header leaves the stored          *)
(* requestID and the scope tag as they were.                               *)
C10_AbsentHeaderKeeps ==
    \A p \in Procs :
        hdr[p] = None =>
            /\ mwWroteID[p] # None => mwWroteID[p] = mwPrevID[p]
            /\ (mwWroteTag[p] # None /\ mwPrevTag[p] # None) =>
                   mwWroteTag[p] = mwPrevTag[p]

(* C10 amended: the middleware writes q.requestID and the scope tag on     *)
(* every request: the header's value when the header is present, the empty *)
(* string when it is absent.                                               *)
C10_AlwaysWrites ==
    \A p \in Procs :
        LET v == IF hdr[p] = None THEN "" ELSE hdr[p]
        IN  /\ pc[p] \in {"mw_tag", "handler"} => mwWroteID[p] = v
            /\ pc[p] = "handler" => mwWroteTag[p] = v

\* a request without the header has replaced a stored id and tag by ""
C10_Witness ==
    \E p \in Procs :
        /\ hdr[p] = None
        /\ pc[p] = "handler"
        /\ mwPrevID[p] = "r1" /\ mwWroteID[p] = ""
        /\ mwPrevTag[p] = "r1" /\ mwWroteTag[p] = ""

(* ----------------------------- redis ----------------------------------- *)
DefaultPoolSize == 64
\* 10 * time.Second, in seconds
DefaultReadTimeout == 10

notRedis == <<loggerVars, prefix, requestID, level, pc, newVars, lvlVars,
              mwLocals, scopeTag>>

\* NewRedis(config)
NewRedis(p, config) ==
    /\ ~exited
    /\ pc[p] = "idle"
    /\ instance # NIL
    /\ cfg = <<>>
    /\ cfg' = <<config>>
    /\ client' = <<>>
    /\ UNCHANGED <<clientNews, store, redisRet, ops, exited, logVars, notRedis>>

\* lines 55-76: the options built from the handle's fields
Options(r) ==
    [db |-> IF r.db # 0 THEN r.db ELSE 0,
     poolSize |-> IF r.poolSize # 0 THEN r.poolSize ELSE DefaultPoolSize,
     readTimeout |-> IF r.readTimeout # 0 THEN r.readTimeout ELSE DefaultReadTimeout]

\* logger.Info("Start open redis connection..."), line 53
StartMessage ==
    [sev |-> "Info", variant |-> "", format |-> "",
     args |-> <<"Start open redis connection...">>, j |-> <<>>]
InitClientSite ==
    [ok |-> TRUE, file |-> <<"database", "redis", "redis.go">>, line |-> 53,
     fn |-> <<"redis", "(*redis)", "InitClient">>]

\* an InitClient that stores the client before it pings
ClientAfterInitEager(pingOK, cl) == <<cl>>

\* lines 80-84: r.client after InitClient created cl and pinged
ClientAfterInit(pingOK, cl) == IF pingOK THEN <<cl>> ELSE client

\* r.InitClient()
InitClient(p, pingOK) ==
    /\ ~exited
    /\ pc[p] = "idle"
    /\ instance # NIL
    /\ cfg # <<>>
    /\ ops < MaxOps
    /\ ops' = ops + 1
    /\ Emit(p, StartMessage, InitClientSite)
    /\ clientNews' = clientNews + 1
    /\ client' = ClientAfterInit(pingOK, [id |-> clientNews + 1, opts |-> Options(cfg[1])])
    /\ redisRet' = [NoOp EXCEPT !.op = "InitClient",
                                !.err = IF pingOK THEN "nil" ELSE "ping error",
                                !.before = client]
    /\ UNCHANGED <<cfg, store, exited, notRedis>>

\* a method call on the nil r.client: a nil pointer dereference, which
\* panics; the panic is recovered or ends the process
NilClient(p, op, key, crash) ==
    /\ client = <<>>
    /\ redisRet' = [NoOp EXCEPT !.op = op, !.key = key, !.panicked = TRUE,
                                !.before = client]
    /\ exited' = crash
    /\ UNCHANGED store

\* r.SetRedisValue(key, payload, ttl)
SetRedisValue(p, key, payload, ttl, backendOK, crash) ==
    /\ ~exited
    /\ pc[p] = "idle"
    /\ cfg # <<>>
    /\ ops < MaxOps
    /\ ops' = ops + 1
    /\ \/ NilClient(p, "Set", key, crash)
       \/ /\ client # <<>>
          /\ store' = IF backendOK THEN [store EXCEPT ![key] = <<payload, ttl # 0>>]
                      ELSE store
          /\ redisRet' = [NoOp EXCEPT !.op = "Set", !.key = key,
                                      !.reply = IF backendOK THEN "ok" ELSE "err",
                                      !.before = client, !.stored = store[key]]
          /\ UNCHANGED exited
    /\ UNCHANGED <<cfg, client, clientNews, logVars, notRedis>>

\* r.client.Get(key).Result(): the value, redis.Nil for no key, or another error
BackendGet(key, backendOK) ==
    IF ~backendOK THEN [kind |-> "err", val |-> ""]
    ELSE IF store[key] = <<>> THEN [kind |-> "nil", val |-> ""]
    ELSE [kind |-> "value", val |-> store[key][1]]

\* a GetRedisValue that returns the error's text
GetResultErrText(reply) ==
    IF reply.kind = "value" THEN reply.val
    ELSE IF reply.kind = "nil" THEN "redis: nil" ELSE "i/o timeout"

\* lines 95-98
GetResult(reply) == IF reply.kind # "value" THEN "" ELSE reply.val

\* r.GetRedisValue(key)
GetRedisValue(p, key, backendOK, crash) ==
    /\ ~exited
    /\ pc[p] = "idle"
    /\ cfg # <<>>
    /\ ops < MaxOps
    /\ ops' = ops + 1
    /\ \/ NilClient(p, "Get", key, crash)
       \/ /\ client # <<>>
          /\ LET reply == BackendGet(key, backendOK)
             IN  redisRet' = [NoOp EXCEPT !.op = "Get", !.key = key,
                                          !.reply = reply.kind,
                                          !.val = GetResult(reply),
                                          !.before = client, !.stored = store[key]]
          /\ UNCHANGED <<store, exited>>
    /\ UNCHANGED <<cfg, client, clientNews, logVars, notRedis>>

\* r.client.Del(key).Result(): the number of keys removed, or an error
BackendDel(key, backendOK) ==
    IF ~backendOK THEN [kind |-> "err", n |-> 0]
    ELSE [kind |-> "ok", n |-> IF store[key] = <<>> THEN 0 ELSE 1]

\* lines 103-106
DelResult(reply) == IF reply.kind = "err" THEN 0 ELSE reply.n

\* r.DeleteRedisValue(key)
DeleteRedisValue(p, key, backendOK, crash) ==
    /\ ~exited
    /\ pc[p] = "idle"
    /\ cfg # <<>>
    /\ ops < MaxOps
    /\ ops' = ops + 1
    /\ \/ NilClient(p, "Del", key, crash)
       \/ /\ client # <<>>
          /\ LET reply == BackendDel(key, backendOK)
             IN  redisRet' = [NoOp EXCEPT !.op = "Del", !.key = key,
                                          !.reply = reply.kind,
                                          !.n = DelResult(reply),
                                          !.before = client, !.stored = store[key]]
          /\ store' = IF backendOK THEN [store EXCEPT ![key] = <<>>] ELSE store
          /\ UNCHANGED exited
    /\ UNCHANGED <<cfg, client, clientNews, logVars, notRedis>>

\* r.GetClient()
GetClient(p) ==
    /\ ~exited
    /\ pc[p] = "idle"
    /\ cfg # <<>>
    /\ redisRet' = [NoOp EXCEPT !.op = "GetClient", !.before = client]
    /\ UNCHANGED <<cfg, client, clientNews, store, ops, exited, logVars, notRedis>>

\* the backend drops a key whose ttl has run out
Expire(key) ==
    /\ ~exited
    /\ store[key] # <<>>
    /\ store[key][2]
    /\ store' = [store EXCEPT ![key] = <<>>]
    /\ UNCHANGED <<cfg, client, clientNews, redisRet, ops, exited, logVars, notRedis>>

NextRedis ==
    \/ \E p \in Procs :
         \/ \E c \in Configs : NewRedis(p, c)
         \/ \E ok \in BOOLEAN : InitClient(p, ok)
         \/ \E k \in Keys, v \in Values, t \in TTLs, ok, crash \in BOOLEAN :
                SetRedisValue(p, k, v, t, ok, crash)
         \/ \E k \in Keys, ok, crash \in BOOLEAN : GetRedisValue(p, k, ok, crash)
         \/ \E k \in Keys, ok, crash \in BOOLEAN : DeleteRedisValue(p, k, ok, crash)
         \/ GetClient(p)
    \/ \E k \in Keys : Expire(k)

\* one redis handle, used by any goroutine
SpecRedis == InitBuilt /\ [][NextRedis]_vars

DataOps == {"Get", "Set", "Del"}

(* C7: r.client is nil until an InitClient succeeds.  An InitClient whose  *)
(* ping succeeds stores the client it created and returns no error; one    *)
(* whose ping fails returns the error and leaves r.client as it was; no    *)
(* other operation changes r.client.                                       *)
C7_ClientSetOnlyBySuccess ==
    /\ client = <<>>
    /\ [][LET isInit == ops' = ops + 1 /\ redisRet'.op = "InitClient"
          IN  /\ client' # client => isInit /\ redisRet'.err = "nil"
              /\ (isInit /\ redisRet'.err = "nil") =>
                     /\ client' # <<>>
                     /\ client'[1].id = clientNews'
              /\ (isInit /\ redisRet'.err # "nil") =>
                     /\ redisRet'.err = "ping error"
                     /\ client' = client
              /\ (ops' = ops + 1 /\ redisRet'.op \in DataOps) => client' = client]_vars

\* an InitClient has failed on a handle that was Ready, and the client of
\* the earlier InitClient is still there
C7_Witness ==
    /\ redisRet.op = "InitClient"
    /\ redisRet.err = "ping error"
    /\ redisRet.before # <<>>
    /\ client = redisRet.before

(* C8: on a handle with a client, GetRedisValue returns the stored string  *)
(* when the backend returns one, and "" when the key is absent or the      *)
(* backend fails; DeleteRedisValue returns the number of keys removed, and *)
(* 0 when the backend fails; no data operation returns an error.           *)
C8_ErrorsBecomeZeroValues ==
    (redisRet.op \in DataOps /\ ~redisRet.panicked) =>
        /\ redisRet.before # <<>>
        /\ redisRet.err = ""
        /\ redisRet.op = "Get" =>
              redisRet.val = IF redisRet.reply = "err" \/ redisRet.stored = <<>>
                             THEN "" ELSE redisRet.stored[1]
        /\ redisRet.op = "Del" =>
              redisRet.n = IF redisRet.reply = "err" \/ redisRet.stored = <<>>
                           THEN 0 ELSE 1

\* the backend failed on a Get of a key that holds a non-empty value, and
\* the caller got ""
C8_Witness ==
    /\ redisRet.op = "Get"
    /\ redisRet.reply = "err"
    /\ redisRet.stored # <<>>
    /\ redisRet.stored[1] = "v"
    /\ redisRet.val = ""

(* ----------------------------- the whole program ----------------------- *)
Next ==
    \/ NextNew
    \/ NextLog
    \/ NextLevel
    \/ NextMw
    \/ NextRedis

Spec == Init /\ [][Next]_vars

====
